---- MODULE Spec2Model ----
(***************************************************************************)
(* Real-time delivery core of the chat service: the Message Service        *)
(* (internal/message-service/handlers/message_handler.go), the Edge        *)
(* Gateway socket handler (internal/api-gateway/handlers/                  *)
(* websocket_handler.go, first definition of the handler in that file) and *)
(* the broker client (pkg/rabbitmq/rabbitmq.go).                           *)
(*                                                                         *)
(* Object ids are opaque strings; a message id is the position of the      *)
(* document in the messages collection and Hex/ObjectIDFromHex convert     *)
(* between the two.  Timestamps (created_at, updated_at) are not modelled. *)
(* Database calls succeed; a client's publish is accepted iff the broker   *)
(* is up and the client's channel is open.                                 *)
(***************************************************************************)
EXTENDS Naturals, Sequences, FiniteSets, Bags, TLC

\* ------------------------------------------------------------------ bounds
MaxMsgs == 2          \* messages inserted by SendMessage
MaxPatch == 1         \* PATCH /messages/:id/status requests
MaxFetch == 1         \* GET /messages/:UserID requests
MaxHandlers == 2      \* /ws upgrade requests per run
MaxMembers == 2       \* member_ids listed in a POST /groups request
MaxTyping == 2        \* typing events accepted by the exchange
MaxTicks == 3         \* pings of one connection left unanswered in a row
MaxNow == 12          \* the web client's clock stops after this many ticks of 10 s

\* ------------------------------------------------------------- identifiers
Users == {"a", "b", "c"}
GroupIds == {"g"}
Gateways == {"g1", "g2"}
BadHex == "zz"                    \* a string ObjectIDFromHex rejects
NilObjectID == "000"              \* Hex() of the zero ObjectID
Absent == "-"                     \* a JSON key that is not in the payload

MessageStatusSent == "sent"
MessageStatusDelivered == "delivered"
MessageStatusRead == "read"

Hex(n) == ToString(n)
MsgHexIds == {Hex(n) : n \in 1..MaxMsgs}
IsHex(s) == s \in Users \cup GroupIds \cup MsgHexIds \cup {NilObjectID}
MsgIndex(s) == IF s \in MsgHexIds THEN CHOOSE n \in 1..MaxMsgs : Hex(n) = s ELSE 0

VARIABLES
    messages,      \* messages collection: sequence of documents, _id = position
    groups,        \* groups collection: group id -> member_ids (a list)
    queues,        \* broker: declared queue name -> sequence of deliveries
    bindings,      \* broker: set of [queue, pattern, exchange]
    published,     \* broker: bag of events accepted by exchange "messages"
    brokerUp,      \* broker reachable from the services
    channel,       \* process (by its broker client) -> state of its AMQP
                   \* connection and channel; starting: main has not run;
                   \* none: the process serves without a client; aborted:
                   \* main ended in log.Fatalf
    fanOutTasks,   \* spawned fanOutGroupMessage goroutines (bag of responses)
    markTasks,     \* spawned markMessagesAsRead goroutines (bag of pairs)
    resp,          \* the last HTTP response of the Message Service
    sendPending,   \* SendMessage requests between the failed exchange publish
                   \* and the direct-queue fallback (bag)
    nPatch, nFetch,
    clients,       \* gateway -> user -> handler owning the registered socket (0: none)
    pc,            \* HandleWebSocket request -> position in the handler
    huser, hgw,    \* HandleWebSocket request -> authenticated user, gateway
    conn,          \* HandleWebSocket request -> its socket: none, open, closed
    exists,        \* HandleWebSocket request -> local `exists` (closed a prior socket)
    frames,        \* HandleWebSocket request -> frames written to its socket
    presence,      \* user -> status of the last status.user.<uid> event published
    consumed,      \* gateway -> bag of events handed to its consumer
    missed,        \* HandleWebSocket request -> pings written since the last pong
    pingTask,      \* HandleWebSocket request -> its ping goroutine: none, waiting, returned
    socket,        \* web client, ConnectionManager.socket: null, or its readyState
    attempts,      \* web client, ReconnectionStrategy.attempts
    timer,         \* web client, ReconnectionStrategy.timer: delay in ms of the pending timeout (0: none)
    isManualDisconnect,  \* web client, WebSocketService.isManualDisconnect
    checkInterval, \* web client, HealthCheckManager: tick at which both intervals fire next (0: none)
    lastPongTime,  \* web client, HealthCheckManager.lastPongTime in ticks (0: never)
    now,           \* web client, Date.now() in ticks of 10 s
    pingSent       \* a text ping of the web client the server has not answered yet

msVars == <<messages, groups, fanOutTasks, markTasks, resp, sendPending, nPatch, nFetch>>
brokerVars == <<queues, bindings, published, brokerUp, channel>>
gwVars == <<clients, pc, huser, hgw, conn, exists, frames, presence, consumed, missed,
           pingTask>>
clientVars == <<socket, attempts, timer, isManualDisconnect, checkInterval, lastPongTime,
                now, pingSent>>
vars == <<msVars, brokerVars, gwVars, clientVars>>

\* ------------------------------------------------------------------ broker
\* AMQP topic matching: '#' matches zero or more words, '*' exactly one.
RECURSIVE TopicMatch(_, _)
TopicMatch(pattern, key) ==
    IF pattern = <<>> THEN key = <<>>
    ELSE IF Head(pattern) = "#"
         THEN \/ TopicMatch(Tail(pattern), key)
              \/ key # <<>> /\ TopicMatch(pattern, Tail(key))
    ELSE /\ key # <<>>
         /\ Head(pattern) \in {"*", Head(key)}
         /\ TopicMatch(Tail(pattern), Tail(key))

\* Queues that receive a copy of an event published to `exchange` with `key`.
RouteTo(exchange, key) ==
    {q \in DOMAIN queues :
        \E b \in bindings : /\ b.queue = q
                            /\ b.exchange = exchange
                            /\ TopicMatch(b.pattern, key)}

Delivery(ev) == [key |-> ev.key, body |-> ev.body, redelivered |-> FALSE]

RECURSIVE Enqueue(_, _)
Enqueue(qs, evs) ==
    IF evs = <<>> THEN qs
    ELSE LET ev == Head(evs)
             to == RouteTo(ev.exchange, ev.key)
         IN Enqueue([q \in DOMAIN qs |->
                        IF q \in to THEN Append(qs[q], Delivery(ev)) ELSE qs[q]],
                    Tail(evs))

RECURSIVE SeqToBag(_)
SeqToBag(s) ==
    IF s = <<>> THEN EmptyBag
    ELSE SetToBag({[key |-> Head(s).key, body |-> Head(s).body]}) (+) SeqToBag(Tail(s))

\* The broker clients: the Message Service's and each gateway's.
ClientIds == {"ms"} \cup Gateways

\* channel.Publish returns nil iff the client's connection and channel are
\* open; handleReconnect installs a new open channel before it redeclares.
Usable(client) ==
    brokerUp /\ channel[client] \in {"open", "swapped", "redeclare", "reopened"}

\* The process is past its startup and listens (router.Run).
Serving(client) == channel[client] \notin {"starting", "aborted"}

\* The deliveries of Consume arrive on the channel it was called on; that
\* channel ends with its connection and handleReconnect does not call
\* Consume again.
Consuming(client) == brokerUp /\ channel[client] = "open"

\* Client.PublishToExchange for each event of evs, in order.  The callers
\* modelled here ignore or log the error.
PublishToExchange(client, evs) ==
    IF Usable(client)
    THEN /\ queues' = Enqueue(queues, evs)
         /\ published' = published (+) SeqToBag(evs)
    ELSE UNCHANGED <<queues, published>>

Event(key, body) == [exchange |-> "messages", key |-> key, body |-> body]

\* ----------------------------------------------------------------- payloads
Payload(type, id, message_id, content, sender_id, receiver_id, group_id, status) ==
    [type |-> type, id |-> id, message_id |-> message_id, content |-> content,
     sender_id |-> sender_id, receiver_id |-> receiver_id, group_id |-> group_id,
     status |-> status]

\* models.MessageResponse built from a stored document.
MessageResponse(id, m) ==
    Payload(Absent, Hex(id), Absent, "hi", m.sender_id, m.receiver_id, m.group_id,
            m.status)

\* models.MessageStatusNotification
MessageStatusNotification(idHex, status, m) ==
    Payload(Absent, Absent, idHex, Absent, m.sender_id, m.receiver_id, Absent, status)

BatchStatusUpdate(senderID, receiverID) ==
    Payload("batch", Absent, Absent, Absent, senderID, receiverID, Absent,
            MessageStatusRead)

\* models.StatusUpdate{Status: s}
StatusUpdate(s) ==
    Payload(Absent, Absent, Absent, Absent, Absent, Absent, Absent, s)

\* A body that is not JSON: json.Unmarshal returns an error on it.
NotJSON == "not-json"
Malformed ==
    Payload(NotJSON, Absent, Absent, Absent, Absent, Absent, Absent, Absent)
Unmarshals(body) == body.type # NotJSON

\* A publisher outside this program puts a body that is not JSON on the
\* exchange "messages".
PublishForeign(key) ==
    /\ brokerUp
    /\ [key |-> key, body |-> Malformed] \notin BagToSet(published)
    /\ queues' = Enqueue(queues, <<Event(key, Malformed)>>)
    /\ published' = published (+) SeqToBag(<<Event(key, Malformed)>>)
    /\ UNCHANGED <<msVars, bindings, brokerUp, channel, gwVars, clientVars>>

InsertAt(s, p, x) == SubSeq(s, 1, p - 1) \o <<x>> \o SubSeq(s, p, Len(s))
RemoveAt(s, p) == SubSeq(s, 1, p - 1) \o SubSeq(s, p + 1, Len(s))

\* msg.Nack(false, true): the broker puts the delivery back on its queue,
\* at its original position or behind deliveries that arrived since, and
\* marks it redelivered.
Nack(queue, d) ==
    {InsertAt(queue, p, [d EXCEPT !.redelivered = TRUE]) : p \in 1..(Len(queue) + 1)}

\* for msg := range msgs: the consumer receives the deliveries of its queue
\* in queue order.
NextDelivery_Newest(queue) == Len(queue)
NextDelivery(queue) == 1

\* ---------------------------------------------------------- Message Service
NewMessage(senderID, receiverID, groupID) ==
    [sender_id |-> senderID, receiver_id |-> receiverID, group_id |-> groupID,
     status |-> MessageStatusSent]

\* c.ShouldBindJSON(&input) of SendMessage: content is required; receiver_id
\* and group_id are both optional.
BindMessageRequest(input) == input.content # ""

Response(op, caller, receiverID, groupID, code, id) ==
    [op |-> op, caller |-> caller, receiver_id |-> receiverID,
     group_id |-> groupID, code |-> code, id |-> id]

\* UpdateOne(bson.M{"_id": id}, $set status): no document matched is no error.
UpdateOne(coll, id, status) ==
    [i \in DOMAIN coll |-> IF i = id THEN [coll[i] EXCEPT !.status = status]
                                     ELSE coll[i]]

\* UpdateMany(sender_id, receiver_id, status $ne read  ->  $set status read)
UpdateManyRead_SwappedPair(coll, senderID, receiverID) ==
    [i \in DOMAIN coll |->
        IF /\ coll[i].sender_id = receiverID
           /\ coll[i].receiver_id = senderID
           /\ coll[i].status # MessageStatusRead
        THEN [coll[i] EXCEPT !.status = MessageStatusRead]
        ELSE coll[i]]

UpdateManyRead(coll, senderID, receiverID) ==
    [i \in DOMAIN coll |->
        IF /\ coll[i].sender_id = senderID
           /\ coll[i].receiver_id = receiverID
           /\ coll[i].status # MessageStatusRead
        THEN [coll[i] EXCEPT !.status = MessageStatusRead]
        ELSE coll[i]]

SendStatus_FailsWhenUnpublished(exchangeOK, fallbackOK) ==
    IF exchangeOK \/ fallbackOK THEN 201 ELSE 500

\* The status SendMessage answers a 1:1 request whose insert succeeded with.
SendStatus(exchangeOK, fallbackOK) == 201

SendMessage(senderID, input) ==
    LET id == Len(messages) + 1
        reply(code, mid) ==
            resp' = Response("send", senderID, input.receiver_id, input.group_id,
                             code, mid)
        reject == /\ reply(400, 0)
                  /\ UNCHANGED <<messages, fanOutTasks, sendPending, queues, published>>
    IN
    /\ Serving("ms")
    /\ Len(messages) < MaxMsgs
    /\ IF ~BindMessageRequest(input) THEN reject
       ELSE IF input.group_id # ""
       THEN IF ~IsHex(input.group_id) THEN reject
            ELSE LET m == NewMessage(senderID, NilObjectID, input.group_id) IN
                 /\ messages' = Append(messages, m)
                 /\ fanOutTasks' = fanOutTasks (+) SetToBag({MessageResponse(id, m)})
                 /\ reply(201, id)
                 /\ UNCHANGED <<sendPending, queues, published>>
       ELSE IF input.receiver_id # ""
       THEN IF ~IsHex(input.receiver_id) THEN reject
            ELSE LET m == NewMessage(senderID, input.receiver_id, NilObjectID) IN
                 /\ messages' = Append(messages, m)
                 /\ PublishToExchange(
                        "ms", <<Event(<<"message", m.receiver_id>>, MessageResponse(id, m))>>)
                 /\ IF Usable("ms")
                    THEN reply(SendStatus(TRUE, TRUE), id) /\ UNCHANGED sendPending
                    ELSE /\ sendPending' = sendPending (+)
                                SetToBag({[caller |-> senderID,
                                           response |-> MessageResponse(id, m)]})
                         /\ UNCHANGED resp
                 /\ UNCHANGED fanOutTasks
       ELSE reject
    /\ UNCHANGED <<groups, markTasks, nPatch, nFetch, bindings, brokerUp, channel, gwVars,
                   clientVars>>

\* SendMessage, after PublishToExchange returned an error: the fallback
\* Publish("messages", response) through the default exchange, then 201.
SendFallback(p) ==
    /\ BagIn(p, sendPending)
    /\ sendPending' = sendPending (-) SetToBag({p})
    /\ queues' = IF Usable("ms") /\ "messages" \in DOMAIN queues
                  THEN [queues EXCEPT !["messages"] =
                           Append(@, [key |-> <<"messages">>, body |-> p.response,
                                      redelivered |-> FALSE])]
                  ELSE queues
    /\ resp' = Response("send", p.caller, p.response.receiver_id, "",
                        SendStatus(FALSE, Usable("ms")), MsgIndex(p.response.id))
    /\ UNCHANGED <<messages, groups, fanOutTasks, markTasks, nPatch, nFetch, bindings,
                   published, brokerUp, channel, gwVars, clientVars>>

\* fanOutGroupMessage: "Don't send back to sender".
IsSender(memberID, messageResponse) == memberID = messageResponse.sender_id

\* fanOutGroupMessage: the copy of the response published for one member.
MemberMessage(messageResponse, memberID) ==
    [messageResponse EXCEPT !.receiver_id = memberID]

\* The copies fanOutGroupMessage publishes for `members`, in list order.
RECURSIVE FanOutEvents(_, _)
FanOutEvents(members, messageResponse) ==
    IF members = <<>> THEN <<>>
    ELSE LET memberID == Head(members)
             rest == FanOutEvents(Tail(members), messageResponse)
         IN IF IsSender(memberID, messageResponse)
            THEN rest
            ELSE <<Event(<<"message", memberID>>,
                         MemberMessage(messageResponse, memberID))>>
                 \o rest

fanOutGroupMessage(messageResponse) ==
    /\ BagIn(messageResponse, fanOutTasks)
    /\ fanOutTasks' = fanOutTasks (-) SetToBag({messageResponse})
    /\ IF messageResponse.group_id \in DOMAIN groups
       THEN PublishToExchange(
                "ms", FanOutEvents(groups[messageResponse.group_id], messageResponse))
       ELSE UNCHANGED <<queues, published>>      \* fetchGroupMembers failed
    /\ UNCHANGED <<messages, groups, sendPending, markTasks, resp, nPatch, nFetch, bindings,
                   brokerUp, channel, gwVars, clientVars>>

\* models.MessageStatusUpdate binding: status is required.
BindStatusUpdate(status) == status # ""

IsReceiver_OrSender(message, currentUserID) ==
    currentUserID \in {message.receiver_id, message.sender_id}

\* message.ReceiverID != currentUserObjectID is answered with 403.
IsReceiver(message, currentUserID) == message.receiver_id = currentUserID

UpdateMessageStatus(currentUserID, messageID, status) ==
    LET id == MsgIndex(messageID)
        reply(code) == resp' = Response("patch", currentUserID, "", "", code, id)
        reject(code) == reply(code) /\ UNCHANGED <<messages, queues, published>>
    IN
    /\ Serving("ms")
    /\ nPatch < MaxPatch
    /\ nPatch' = nPatch + 1
    /\ IF ~BindStatusUpdate(status) \/ ~IsHex(messageID) THEN reject(400)
       ELSE IF id \notin DOMAIN messages THEN reject(404)
       ELSE IF ~IsReceiver(messages[id], currentUserID) THEN reject(403)
       ELSE /\ messages' = UpdateOne(messages, id, status)
            /\ PublishToExchange(
                   "ms", <<Event(<<"status", messageID>>,
                                 MessageStatusNotification(messageID, status,
                                                           messages[id]))>>)
            /\ reply(200)
    /\ UNCHANGED <<groups, sendPending, fanOutTasks, markTasks, nFetch, bindings,
                   brokerUp, channel, gwVars, clientVars>>

\* The group id GetMessages settles on: the group_id query, else the `with`
\* query if it names a group, else the path parameter if it names a group.
ResolveGroupID(groupQ, withQ, paramID) ==
    IF groupQ # "" THEN groupQ
    ELSE IF withQ # "" /\ IsHex(withQ) /\ withQ \in DOMAIN groups THEN withQ
    ELSE IF paramID # "" /\ IsHex(paramID) /\ paramID \in DOMAIN groups THEN paramID
    ELSE ""

GetMessages(currentUserID, paramID, groupQ, withQ) ==
    LET groupID == ResolveGroupID(groupQ, withQ, paramID)
        target == IF paramID = "" THEN withQ ELSE paramID
        reply(code) == resp' = Response("get", currentUserID, target, groupID, code, 0)
    IN
    /\ Serving("ms")
    /\ nFetch < MaxFetch
    /\ nFetch' = nFetch + 1
    /\ IF groupID # ""
       THEN /\ reply(IF IsHex(groupID) THEN 200 ELSE 400)
            /\ UNCHANGED markTasks
       ELSE IF target = "" \/ ~IsHex(target)
       THEN reply(400) /\ UNCHANGED markTasks
       ELSE /\ reply(200)
            /\ markTasks' = markTasks (+)
                   SetToBag({[sender_id |-> target, receiver_id |-> currentUserID]})
    /\ UNCHANGED <<messages, groups, sendPending, fanOutTasks, nPatch, brokerVars, gwVars,
                   clientVars>>

markMessagesAsRead(senderID, receiverID) ==
    LET task == [sender_id |-> senderID, receiver_id |-> receiverID] IN
    /\ BagIn(task, markTasks)
    /\ markTasks' = markTasks (-) SetToBag({task})
    /\ messages' = UpdateManyRead(messages, senderID, receiverID)
    /\ PublishToExchange(
           "ms", <<Event(<<"status", "batch", senderID, receiverID>>,
                         BatchStatusUpdate(senderID, receiverID))>>)
    /\ UNCHANGED <<groups, sendPending, fanOutTasks, resp, nPatch, nFetch, bindings,
                   brokerUp, channel, gwVars, clientVars>>

IsFreshlySent_Delivered(message) == message.status = MessageStatusDelivered

\* The condition under which HandleIncomingMessage marks the message delivered.
IsFreshlySent(message) == message.status = MessageStatusSent

\* One turn of the consumer loop started by Consume on queue "messages":
\* handler(msg.Body), then Ack, or Nack with requeue when the handler
\* returns an error (a body that does not unmarshal).  acked = FALSE is the
\* broker not seeing the Ack and delivering the event again (at-least-once),
\* once per event.
HandleIncomingMessage(acked) ==
    /\ Consuming("ms")
    /\ "messages" \in DOMAIN queues
    /\ queues["messages"] # <<>>
    /\ LET d == Head(queues["messages"])
           message == d.body
           id == MsgIndex(message.id)
           rest == IF acked THEN Tail(queues["messages"])
                   ELSE <<[d EXCEPT !.redelivered = TRUE]>> \o Tail(queues["messages"])
           qs == [queues EXCEPT !["messages"] = rest]
           ev == Event(<<"status", message.id>>,
                       MessageStatusNotification(message.id, MessageStatusDelivered,
                                                 message))
       IN IF ~Unmarshals(d.body)
          THEN /\ acked
               /\ \E requeued \in Nack(Tail(queues["messages"]), d) :
                      queues' = [queues EXCEPT !["messages"] = requeued]
               /\ UNCHANGED <<messages, published>>
          ELSE
          /\ acked \/ ~d.redelivered
          /\ IF IsFreshlySent(message)
             THEN /\ messages' = UpdateOne(messages, id, MessageStatusDelivered)
                  /\ IF Usable("ms")
                     THEN /\ queues' = Enqueue(qs, <<ev>>)
                          /\ published' = published (+) SeqToBag(<<ev>>)
                     ELSE queues' = qs /\ UNCHANGED published
             ELSE /\ queues' = qs
                  /\ UNCHANGED <<messages, published>>
    /\ UNCHANGED <<groups, sendPending, fanOutTasks, markTasks, resp, nPatch, nFetch, bindings,
                   brokerUp, channel, gwVars, clientVars>>

\* Every stored message has the content "hi"; $regex query with option i
\* matches a content that contains the query, letter case ignored.
ToLower(q) == IF q = "HI" THEN "hi" ELSE IF q = "H" THEN "h" ELSE q
RegexMatchI(content, query) ==
    content = "hi" /\ ToLower(query) \in {"h", "i", "hi"}

\* The ids of the groups whose member_ids contain the user.
MyGroupIDs(currentUserID) ==
    {g \in DOMAIN groups : \E k \in DOMAIN groups[g] : groups[g][k] = currentUserID}

\* The filter SearchMessages builds, applied to one stored message.
SearchFilter(message, currentUserID, query, contactID) ==
    /\ RegexMatchI("hi", query)
    /\ IF contactID # ""
       THEN IF contactID \in DOMAIN groups                 \* isGroup
            THEN message.group_id = contactID
            ELSE \/ message.sender_id = currentUserID /\ message.receiver_id = contactID
                 \/ message.sender_id = contactID /\ message.receiver_id = currentUserID
       ELSE \/ message.sender_id = currentUserID
            \/ message.receiver_id = currentUserID
            \/ MyGroupIDs(currentUserID) # {} /\ message.group_id \in MyGroupIDs(currentUserID)

\* GET /messages/search?q=&contact_id= : the response lists the ids found.
SearchMessages(currentUserID, query, contactID) ==
    LET reply(code, found) ==
            resp' = [op |-> "search", caller |-> currentUserID, receiver_id |-> contactID,
                     group_id |-> "", code |-> code, id |-> 0, found |-> found]
    IN
    /\ Serving("ms")
    /\ IF query = "" THEN reply(400, {})
       ELSE IF contactID # "" /\ ~IsHex(contactID) THEN reply(400, {})
       ELSE reply(200, {i \in DOMAIN messages :
                           SearchFilter(messages[i], currentUserID, query, contactID)})
    /\ UNCHANGED <<messages, groups, sendPending, fanOutTasks, markTasks, nPatch, nFetch,
                   brokerVars, gwVars, clientVars>>

\* ------------------------------------------------------------ Edge Gateway
Handlers == 1..MaxHandlers

\* authService.ValidateToken: a token is modelled by the user id it was
\* issued to; "" is a missing token and "bad" one that fails validation.
Tokens == Users \cup {"", "bad"}

ValidateToken_AcceptsAny(token) == token # ""

ValidateToken(token) == token \in Users

\* NewWebSocketHandler: every gateway declares the queue of this name.
GatewayQueue(g) == "websocket_messages"

\* HandleWebSocket up to the first critical section: token check.
WsAuthenticate(h, g, token) ==
    /\ Serving(g)
    /\ pc[h] = "idle"
    /\ IF token = "" \/ ~ValidateToken(token)
       THEN /\ pc' = [pc EXCEPT ![h] = "done"]            \* 401
            /\ UNCHANGED <<huser, hgw>>
       ELSE /\ pc' = [pc EXCEPT ![h] = "lock1"]
            /\ huser' = [huser EXCEPT ![h] = token]
            /\ hgw' = [hgw EXCEPT ![h] = g]
    /\ UNCHANGED <<msVars, brokerVars, clients, conn, exists, frames, presence,
                   consumed, missed, pingTask, clientVars>>

\* clientsMutex.Lock(); close and delete the existing connection; Unlock().
WsCloseExisting(h) ==
    /\ pc[h] = "lock1"
    /\ LET existingConn == clients[hgw[h]][huser[h]] IN
       IF existingConn # 0
       THEN /\ conn' = [conn EXCEPT ![existingConn] = "closed"]
            /\ clients' = [clients EXCEPT ![hgw[h]][huser[h]] = 0]
            /\ exists' = [exists EXCEPT ![h] = TRUE]
       ELSE UNCHANGED <<conn, clients, exists>>
    /\ pc' = [pc EXCEPT ![h] = "upgrade"]
    /\ UNCHANGED <<msVars, brokerVars, huser, hgw, frames, presence, consumed, missed, pingTask,
                   clientVars>>

\* The same critical section, one step per statement.  Request h is
\* between clientsMutex.Lock() and Unlock().
HoldsClientsMutex(h) == pc[h] \in {"locked1", "delete1"}
LockFree(g) == \A h \in Handlers : hgw[h] = g => ~HoldsClientsMutex(h)

\* clientsMutex.Lock()
WsLock(h) ==
    /\ pc[h] = "lock1"
    /\ LockFree(hgw[h])
    /\ pc' = [pc EXCEPT ![h] = "locked1"]
    /\ UNCHANGED <<msVars, brokerVars, clients, huser, hgw, conn, exists, frames,
                   presence, consumed, missed, pingTask, clientVars>>

\* existingConn, exists := h.clients[UserIDStr]; existingConn.Close()
WsCloseLocked(h) ==
    /\ pc[h] = "locked1"
    /\ LET existingConn == clients[hgw[h]][huser[h]] IN
       IF existingConn # 0
       THEN /\ conn' = [conn EXCEPT ![existingConn] = "closed"]
            /\ exists' = [exists EXCEPT ![h] = TRUE]
       ELSE UNCHANGED <<conn, exists>>
    /\ pc' = [pc EXCEPT ![h] = "delete1"]
    /\ UNCHANGED <<msVars, brokerVars, clients, huser, hgw, frames, presence, consumed,
                   missed, pingTask, clientVars>>

\* delete(h.clients, UserIDStr); clientsMutex.Unlock()
WsDeleteUnlock(h) ==
    /\ pc[h] = "delete1"
    /\ clients' = IF exists[h] THEN [clients EXCEPT ![hgw[h]][huser[h]] = 0] ELSE clients
    /\ pc' = [pc EXCEPT ![h] = "upgrade"]
    /\ UNCHANGED <<msVars, brokerVars, huser, hgw, conn, exists, frames, presence,
                   consumed, missed, pingTask, clientVars>>

\* upgrader.Upgrade: on failure the handler returns (no cleanup is deferred yet).
WsUpgrade(h, ok) ==
    /\ pc[h] = "upgrade"
    /\ IF ok
       THEN /\ conn' = [conn EXCEPT ![h] = "open"]
            /\ pc' = [pc EXCEPT ![h] = "register"]
       ELSE /\ pc' = [pc EXCEPT ![h] = "done"]
            /\ UNCHANGED conn
    /\ UNCHANGED <<msVars, brokerVars, clients, huser, hgw, exists, frames,
                   presence, consumed, missed, pingTask, clientVars>>

\* clientsMutex.Lock(); h.clients[UserIDStr] = conn; Unlock().
WsRegister(h) ==
    /\ pc[h] = "register"
    /\ clients' = [clients EXCEPT ![hgw[h]][huser[h]] = h]
    /\ pc' = [pc EXCEPT ![h] = "online"]
    /\ UNCHANGED <<msVars, brokerVars, huser, hgw, conn, exists, frames, presence,
                   consumed, missed, pingTask, clientVars>>

PublishPresence_OnlineOnly(g, u, status) ==
    IF status = "online"
    THEN /\ PublishToExchange(g, <<Event(<<"status", "user", u>>, StatusUpdate(status))>>)
         /\ presence' = IF Usable(g) THEN [presence EXCEPT ![u] = status] ELSE presence
    ELSE UNCHANGED <<queues, published, presence>>

\* Publish of a presence event on status.user.<uid>.
PublishPresence(g, u, status) ==
    /\ PublishToExchange(g, <<Event(<<"status", "user", u>>, StatusUpdate(status))>>)
    /\ presence' = IF Usable(g) THEN [presence EXCEPT ![u] = status] ELSE presence

WsPublishOnline(h) ==
    /\ pc[h] = "online"
    /\ PublishPresence(hgw[h], huser[h], "online")
    /\ pc' = [pc EXCEPT ![h] = "reading"]
    /\ pingTask' = [pingTask EXCEPT ![h] = "waiting"]              \* go func() { ... }()
    /\ UNCHANGED <<msVars, bindings, brokerUp, channel, clients, huser, hgw, conn, exists,
                   frames, consumed, missed, clientVars>>

\* The peer closes the socket or the network drops it.
PeerClose(h) ==
    /\ pc[h] \in {"register", "online", "reading"}
    /\ conn[h] = "open"
    /\ conn' = [conn EXCEPT ![h] = "closed"]
    /\ UNCHANGED <<msVars, brokerVars, clients, pc, huser, hgw, exists, frames,
                   presence, consumed, missed, pingTask, clientVars>>

\* conn.ReadMessage fails on a closed socket: the read loop breaks and the
\* deferred function starts (pingTicker.Stop(); conn.Close()).
WsReadError(h) ==
    /\ pc[h] = "reading"
    /\ conn[h] = "closed"
    /\ pc' = [pc EXCEPT ![h] = "c_delete"]
    /\ UNCHANGED <<msVars, brokerVars, clients, huser, hgw, conn, exists, frames,
                   presence, consumed, missed, pingTask, clientVars>>

\* The read loop got the text frame "ping" and starts
\* conn.WriteMessage(TextMessage, "pong").
WsPongBegin(h) ==
    /\ pc[h] = "reading"
    /\ conn[h] = "open"
    /\ Len(frames[h]) < MaxMsgs
    /\ pc' = [pc EXCEPT ![h] = "ponging"]
    /\ UNCHANGED <<msVars, brokerVars, clients, huser, hgw, conn, exists, frames,
                   presence, consumed, missed, pingTask, clientVars>>

\* conn.WriteMessage returns: the frame is written and the loop continues,
\* or the write failed and the loop breaks into the deferred cleanup.
WsPongEnd(h, ok) ==
    /\ pc[h] = "ponging"
    /\ IF ok /\ conn[h] = "open"
       THEN /\ frames' = [frames EXCEPT ![h] = Append(@,
                              Payload("pong", Absent, Absent, Absent, Absent, Absent,
                                      Absent, Absent))]
            /\ pc' = [pc EXCEPT ![h] = "reading"]
            /\ UNCHANGED conn
       ELSE /\ conn' = [conn EXCEPT ![h] = "closed"]
            /\ pc' = [pc EXCEPT ![h] = "c_delete"]
            /\ UNCHANGED frames
    /\ UNCHANGED <<msVars, brokerVars, clients, huser, hgw, exists, presence, consumed,
                   missed, pingTask, clientVars>>

\* The table after the deferred delete(h.clients, UserIDStr).
DeleteClient(table, g, u, h) == [table EXCEPT ![g][u] = 0]

\* deferred: clientsMutex.Lock(); delete(h.clients, UserIDStr); Unlock().
WsCleanupDelete(h) ==
    /\ pc[h] = "c_delete"
    /\ clients' = DeleteClient(clients, hgw[h], huser[h], h)
    /\ pc' = [pc EXCEPT ![h] = "c_offline"]
    /\ UNCHANGED <<msVars, brokerVars, huser, hgw, conn, exists, frames, presence,
                   consumed, missed, pingTask, clientVars>>

\* deferred: publish {status: offline}.
WsPublishOffline(h) ==
    /\ pc[h] = "c_offline"
    /\ PublishPresence(hgw[h], huser[h], "offline")
    /\ pc' = [pc EXCEPT ![h] = "done"]
    /\ UNCHANGED <<msVars, bindings, brokerUp, channel, clients, huser, hgw, conn, exists,
                   frames, consumed, missed, pingTask, clientVars>>

TargetUser_StatusToReceiver(msg) ==
    IF msg.type = "typing" THEN msg.receiver_id
    ELSE IF msg.type = "batch" THEN msg.sender_id
    ELSE IF msg.content # Absent THEN msg.receiver_id
    ELSE IF msg.message_id # Absent THEN msg.receiver_id
    ELSE Absent

\* The user whose connection handleIncomingRabbitMQMessage writes msg to
\* (Absent: none), by the shape of the payload.
TargetUser(msg) ==
    IF msg.type = "typing" THEN msg.receiver_id
    ELSE IF msg.type = "batch" THEN msg.sender_id
    ELSE IF msg.content # Absent THEN msg.receiver_id
    ELSE IF msg.message_id # Absent THEN msg.sender_id
    ELSE Absent

\* One turn of the consumer loop of gateway g: the handler then Ack, or
\* Nack with requeue when the body does not unmarshal.  acked = FALSE is
\* the broker not seeing the Ack and delivering the event again
\* (at-least-once), once per event.
GatewayConsumerTurn(g, acked) ==
    LET q == GatewayQueue(g) IN
    /\ Consuming(g)
    /\ q \in DOMAIN queues
    /\ queues[q] # <<>>
    /\ LET i == NextDelivery(queues[q])
           d == queues[q][i]
           rest == RemoveAt(queues[q], i)
           u == TargetUser(d.body)
           h == IF u \in Users THEN clients[g][u] ELSE 0
       IN IF ~Unmarshals(d.body)
          THEN /\ acked
               /\ \E requeued \in Nack(rest, d) :
                      queues' = [queues EXCEPT ![q] = requeued]
               /\ UNCHANGED <<frames, consumed>>
          ELSE /\ acked \/ ~d.redelivered
               /\ frames' = IF h # 0 /\ conn[h] = "open"
                            THEN [frames EXCEPT ![h] = Append(@, d.body)]
                            ELSE frames
               /\ consumed' = [consumed EXCEPT ![g] =
                                  @ (+) SetToBag({[key |-> d.key, body |-> d.body]})]
               /\ queues' = [queues EXCEPT ![q] =
                                IF acked THEN rest
                                ELSE InsertAt(rest, i, [d EXCEPT !.redelivered = TRUE])]
    /\ UNCHANGED <<msVars, bindings, published, brokerUp, channel, clients, pc, huser, hgw,
                   conn, exists, presence, missed, pingTask, clientVars>>

handleIncomingRabbitMQMessage(g) == GatewayConsumerTurn(g, TRUE)

\* models.TypingEvent decoded from a client frame {type: typing, ...}.
TypingEvent(frame) ==
    Payload("typing", Absent, Absent, Absent, frame.sender_id, frame.receiver_id,
            Absent, Absent)

StampSender_KeepsClaimed(typingEvent, UserIDStr) ==
    IF typingEvent.sender_id = Absent
    THEN [typingEvent EXCEPT !.sender_id = UserIDStr]
    ELSE typingEvent

\* typingEvent.SenderID = UserIDStr
StampSender(typingEvent, UserIDStr) == [typingEvent EXCEPT !.sender_id = UserIDStr]

\* One turn of the read loop on a text frame whose type is "typing".
WsTyping(h, frame) ==
    /\ pc[h] = "reading"
    /\ conn[h] = "open"
    /\ frame.type = "typing"
    /\ LET typingEvent == StampSender(TypingEvent(frame), huser[h]) IN
       PublishToExchange(hgw[h],
                         <<Event(<<"typing", typingEvent.receiver_id>>, typingEvent)>>)
    /\ UNCHANGED <<msVars, bindings, brokerUp, channel, gwVars, clientVars>>

\* The typing frames a client sends: with another user's sender_id or
\* without one, to a connected or an absent receiver.
TypingFrames == [type : {"typing"}, sender_id : {"a", Absent}, receiver_id : {"a", "c"}]

\* Typing events the exchange has accepted.
TypingPublished ==
    LET typing == {e \in BagToSet(published) : Head(e.key) = "typing"} IN
    BagCardinality([e \in typing |-> published[e]])

\* The ping goroutine: every PingPeriodSeconds it writes a ping control
\* frame; a failed write only ends the goroutine.
PingPeriodSeconds == 30

PingTick(h) ==
    /\ pc[h] = "reading"
    /\ conn[h] = "open"
    /\ pingTask[h] = "waiting"
    /\ missed[h] < MaxTicks
    /\ missed' = [missed EXCEPT ![h] = @ + 1]
    /\ UNCHANGED <<msVars, brokerVars, clients, pc, huser, hgw, conn, exists, frames,
                   presence, consumed, pingTask, clientVars>>

\* A tick arrives before the deferred pingTicker.Stop() and finds the socket
\* closed: conn.WriteControl fails and the ping goroutine returns.  After
\* Stop() the ticker sends nothing more and its channel is never closed, so
\* `for range pingTicker.C` has no further step.
PingTickFails(h) ==
    /\ pc[h] = "reading"
    /\ conn[h] = "closed"
    /\ pingTask[h] = "waiting"
    /\ pingTask' = [pingTask EXCEPT ![h] = "returned"]
    /\ UNCHANGED <<msVars, brokerVars, clients, pc, huser, hgw, conn, exists, frames,
                   presence, consumed, missed, clientVars>>

\* The pong handler: it logs the pong and returns nil.
Pong(h) ==
    /\ pc[h] = "reading"
    /\ conn[h] = "open"
    /\ missed[h] > 0
    /\ missed' = [missed EXCEPT ![h] = 0]
    /\ UNCHANGED <<msVars, brokerVars, clients, pc, huser, hgw, conn, exists, frames,
                   presence, consumed, pingTask, clientVars>>

\* ------------------------------------------------------- broker connection
\* The queues a client declared, with the x-dead-letter-exchange argument it
\* declared them with ("": no arguments).  The broker keeps both.
DeclaredQueues(client) ==
    IF client = "ms"
    THEN {[name |-> "messages", dlx |-> "dead-letters"],
          [name |-> "message_status", dlx |-> ""],
          [name |-> "dead_letters", dlx |-> ""]}
    ELSE {[name |-> GatewayQueue(client), dlx |-> ""]}

\* handleReconnect redeclares every queue of c.queues with nil arguments; the
\* broker answers a declaration that differs from the queue's arguments with
\* the channel exception 406 PRECONDITION_FAILED, which closes the channel.
RedeclareSucceeds(client) == \A q \in DeclaredQueues(client) : q.dlx = ""

\* The broker becomes unreachable: every connection to it closes.
BrokerDown ==
    /\ brokerUp
    /\ brokerUp' = FALSE
    /\ channel' = [c \in ClientIds |->
                      IF channel[c] \in {"starting", "none", "aborted"}
                      THEN channel[c] ELSE "lost"]
    /\ UNCHANGED <<msVars, queues, bindings, published, gwVars, clientVars>>

BrokerBack ==
    /\ ~brokerUp
    /\ brokerUp' = TRUE
    /\ UNCHANGED <<msVars, queues, bindings, published, channel, gwVars, clientVars>>

\* handleReconnect: amqp.Dial and conn.Channel succeed, c.conn and c.channel
\* are replaced.
ReconnectDial(client) ==
    /\ brokerUp
    /\ channel[client] = "lost"
    /\ channel' = [channel EXCEPT ![client] = "redeclare"]
    /\ UNCHANGED <<msVars, queues, bindings, published, brokerUp, gwVars, clientVars>>

\* The same lines of handleReconnect, one step per statement.  Dial and
\* Channel succeed and clientMutex.Lock() is taken: c.channel still is the
\* channel that closed.
ReconnectLock(client) ==
    /\ brokerUp
    /\ channel[client] = "lost"
    /\ channel' = [channel EXCEPT ![client] = "locked"]
    /\ UNCHANGED <<msVars, queues, bindings, published, brokerUp, gwVars, clientVars>>

\* c.conn = conn; c.channel = channel, with the lock held.
ReconnectSwap(client) ==
    /\ brokerUp
    /\ channel[client] = "locked"
    /\ channel' = [channel EXCEPT ![client] = "swapped"]
    /\ UNCHANGED <<msVars, queues, bindings, published, brokerUp, gwVars, clientVars>>

\* clientMutex.Unlock(); the old connection is closed.
ReconnectUnlock(client) ==
    /\ brokerUp
    /\ channel[client] = "swapped"
    /\ channel' = [channel EXCEPT ![client] = "redeclare"]
    /\ UNCHANGED <<msVars, queues, bindings, published, brokerUp, gwVars, clientVars>>

\* handleReconnect: exchanges, queues and bindings are declared again on the
\* new channel, errors are logged; then it waits for the connection to close.
ReconnectRedeclare(client) ==
    /\ brokerUp
    /\ channel[client] = "redeclare"
    /\ channel' = [channel EXCEPT ![client] =
                      IF RedeclareSucceeds(client) THEN "reopened" ELSE "closed"]
    /\ UNCHANGED <<msVars, queues, bindings, published, brokerUp, gwVars, clientVars>>

\* ------------------------------------------------------ process startup
Binding(q, pattern) == [queue |-> q, pattern |-> pattern, exchange |-> "messages"]

\* The queues main deletes and declares: "messages" with
\* x-dead-letter-exchange = dead-letters, "message_status", "dead_letters".
MessageServiceQueues == {"messages", "message_status", "dead_letters"}

\* dead_letters bound to the fanout exchange dead-letters.  The broker
\* publishes to that exchange the deliveries of "messages" that are
\* rejected or nacked without requeue, or that expire.
DeadLetterBinding ==
    [queue |-> "dead_letters", pattern |-> <<"#">>, exchange |-> "dead-letters"]

\* main of the Message Service up to router.Run: NewClient or log.Fatalf;
\* the queues and exchanges of the service are deleted (and with exchange
\* "messages" every binding to it), then declared and bound again, and the
\* consumer of queue "messages" is started.
MessageServiceStart ==
    /\ channel["ms"] = "starting"
    /\ IF brokerUp
       THEN /\ channel' = [channel EXCEPT !["ms"] = "open"]
            /\ queues' = [q \in DOMAIN queues \cup MessageServiceQueues |->
                             IF q \in MessageServiceQueues THEN <<>> ELSE queues[q]]
            /\ bindings' = {Binding("messages", <<"message", "#">>),
                            Binding("message_status", <<"status", "#">>),
                            DeadLetterBinding}
       ELSE /\ channel' = [channel EXCEPT !["ms"] = "aborted"]
            /\ UNCHANGED <<queues, bindings>>
    /\ UNCHANGED <<msVars, published, brokerUp, gwVars, clientVars>>

\* main of the gateway up to router.Run: a failed NewClient is logged and
\* NewWebSocketHandler gets a nil client; otherwise it declares and binds
\* the gateway queue and starts its consumer.
GatewayStart(g) ==
    /\ channel[g] = "starting"
    /\ IF brokerUp
       THEN /\ channel' = [channel EXCEPT ![g] = "open"]
            /\ queues' = [q \in DOMAIN queues \cup {GatewayQueue(g)} |->
                             IF q \in DOMAIN queues THEN queues[q] ELSE <<>>]
            /\ bindings' = bindings \cup
                             {Binding(GatewayQueue(g), <<"message", "#">>),
                              Binding(GatewayQueue(g), <<"status", "#">>),
                              Binding(GatewayQueue(g), <<"typing", "#">>)}
       ELSE /\ channel' = [channel EXCEPT ![g] = "none"]
            /\ UNCHANGED <<queues, bindings>>
    /\ UNCHANGED <<msVars, published, brokerUp, gwVars, clientVars>>

\* --------------------------------------------- web client: the socket
\* The clock counts ticks of 10 s: the intervals of 30000 ms and the
\* threshold of 60000 ms in ticks.
CheckPeriod == 3
StaleAfter == 6

baseDelay == 1000
maxAttempts == 3
MaxDelay == 30000
CloseCodes == {1000, 1001, 1006}

\* new WebSocketService(): no socket, nothing scheduled.
InitClient ==
    /\ socket = "null"
    /\ attempts = 0
    /\ timer = 0
    /\ isManualDisconnect = FALSE
    /\ checkInterval = 0
    /\ lastPongTime = 0
    /\ now = 1
    /\ pingSent = FALSE

\* connect() with a token in localStorage: the socket afterwards.
ConnectedSocket ==
    IF socket \in {"CONNECTING", "OPEN"} THEN socket ELSE "CONNECTING"

\* connect() called from useWebSocket.attemptConnection.
connect ==
    /\ socket' = ConnectedSocket
    /\ pingSent' = (pingSent /\ socket = "OPEN")
    /\ UNCHANGED <<msVars, brokerVars, gwVars, attempts, timer, isManualDisconnect,
                   checkInterval, lastPongTime, now>>

\* disconnect(), the first half of useWebSocket.reconnect.
disconnect ==
    /\ isManualDisconnect' = TRUE
    /\ checkInterval' = 0
    /\ timer' = 0
    /\ socket' = "null"
    /\ pingSent' = FALSE
    /\ UNCHANGED <<msVars, brokerVars, gwVars, attempts, lastPongTime, now>>

\* socket.onopen: reconnector.reset(); health.start().
handleOpen ==
    /\ socket = "CONNECTING"
    /\ socket' = "OPEN"
    /\ attempts' = 0
    /\ timer' = 0
    /\ checkInterval' = now + CheckPeriod
    /\ UNCHANGED <<msVars, brokerVars, gwVars, isManualDisconnect, lastPongTime, now,
                   pingSent>>

\* ReconnectionStrategy
shouldReconnect(isAbnormal, isManual) ==
    isAbnormal /\ ~isManual /\ attempts < maxAttempts

\* The delay scheduleReconnect computes after this.attempts++.
ReconnectDelay(n) ==
    IF baseDelay * 2^(n - 1) < MaxDelay THEN baseDelay * 2^(n - 1) ELSE MaxDelay

\* socket.onclose with the close code of the event: health.stop();
\* reconnector.handleClose(event, isManualDisconnect).
handleClose(code) ==
    /\ socket \in {"CONNECTING", "OPEN"}
    /\ socket' = "CLOSED"
    /\ checkInterval' = 0
    /\ pingSent' = FALSE
    /\ IF shouldReconnect(code \notin {1000, 1001}, isManualDisconnect)
       THEN /\ attempts' = attempts + 1
            /\ timer' = ReconnectDelay(attempts + 1)
       ELSE UNCHANGED <<attempts, timer>>
    /\ UNCHANGED <<msVars, brokerVars, gwVars, isManualDisconnect, lastPongTime, now>>

\* The timeout of scheduleReconnect fires: reconnectFn, that is connect().
TimerFires ==
    /\ timer # 0
    /\ timer' = 0
    /\ socket' = ConnectedSocket
    /\ UNCHANGED <<msVars, brokerVars, gwVars, attempts, isManualDisconnect,
                   checkInterval, lastPongTime, now, pingSent>>

\* checkConnection calls onStale.
IsStale ==
    \/ socket # "OPEN"
    \/ lastPongTime > 0 /\ now - lastPongTime > StaleAfter

\* Both intervals of HealthCheckManager fire, in the order start() set them:
\* checkConnection (onStale is reconnect(): cleanup and connect), then
\* sendPing on a socket that is open.
IntervalsFire ==
    /\ checkInterval # 0
    /\ now = checkInterval
    /\ checkInterval' = now + CheckPeriod
    /\ socket' = IF IsStale THEN "CONNECTING" ELSE socket
    /\ pingSent' = ~IsStale
    /\ UNCHANGED <<msVars, brokerVars, gwVars, attempts, timer, isManualDisconnect,
                   lastPongTime, now>>

\* The server's text pong arrives: handleMessage, health.updatePongTime().
updatePongTime ==
    /\ pingSent
    /\ socket = "OPEN"
    /\ lastPongTime' = now
    /\ pingSent' = FALSE
    /\ UNCHANGED <<msVars, brokerVars, gwVars, socket, attempts, timer, isManualDisconnect,
                   checkInterval, now>>

\* 10 s pass; an interval that is due fires first.
Tick ==
    /\ now < MaxNow
    /\ checkInterval = 0 \/ now < checkInterval
    /\ now' = now + 1
    /\ UNCHANGED <<msVars, brokerVars, gwVars, socket, attempts, timer, isManualDisconnect,
                   checkInterval, lastPongTime, pingSent>>

\* ------------------------------------------------------------ initial states
\* cmd/message-service main: queue "messages" bound with message.#
MessageServiceBindings == {Binding("messages", <<"message", "#">>)}

\* NewWebSocketHandler: the gateway queue bound with message.#, status.#, typing.#
GatewayBindings(g) ==
    {Binding(GatewayQueue(g), <<"message", "#">>),
     Binding(GatewayQueue(g), <<"status", "#">>),
     Binding(GatewayQueue(g), <<"typing", "#">>)}

\* CreateGroup: member_ids of the stored group, the owner first and then
\* every requested member that is not the owner, in request order.
CreateGroup(owner, memberIDs) ==
    <<owner>> \o SelectSeq(memberIDs, LAMBDA m : m # owner)

\* member_ids of the requests POST /groups is tried with.
GroupRequests == UNION {[1..n -> Users] : n \in 1..MaxMembers}

\* The group documents CreateGroup stores (it refuses fewer than 2 members).
GroupDocs ==
    {CreateGroup(o, r) : o \in {"a", "b"}, r \in GroupRequests}
        \ {<<o>> : o \in Users}

\* Two of them, for the specifications that are not about groups.
PlainGroupDocs == {CreateGroup("a", <<"b", "c">>), CreateGroup("b", <<"c">>)}

\* The users of `online` hold a registered open socket on gateway g1, one
\* HandleWebSocket request each, in its read loop.
Connected(online) == 1..(IF Len(online) < MaxHandlers THEN Len(online) ELSE MaxHandlers)

\* The presence events those connections published, each already consumed by g1.
OnlineEvents(online) ==
    SetToBag({[key |-> <<"status", "user", online[h]>>, body |-> StatusUpdate("online")] :
                 h \in Connected(online)})

\* The system with the Message Service started iff ms, the gateways gws
\* started and the users of `online` connected to g1; no other request made.
InitExceptChannel(ms, gws, online, docs) ==
    /\ messages = <<>>
    /\ groups \in [GroupIds -> docs]
    /\ bindings = (IF ms THEN MessageServiceBindings ELSE {})
                  \cup UNION {GatewayBindings(g) : g \in gws}
    /\ queues = [q \in (IF ms THEN {"messages"} ELSE {})
                       \cup {GatewayQueue(g) : g \in gws} |-> <<>>]
    /\ published = OnlineEvents(online)
    /\ sendPending = EmptyBag
    /\ fanOutTasks = EmptyBag
    /\ markTasks = EmptyBag
    /\ resp = Response("none", "", "", "", 0, 0)
    /\ nPatch = 0
    /\ nFetch = 0
    /\ clients = [g \in Gateways |-> [u \in Users |->
                      IF g = "g1" /\ \E h \in Connected(online) : online[h] = u
                      THEN CHOOSE h \in Connected(online) : online[h] = u
                      ELSE 0]]
    /\ pc = [h \in Handlers |-> IF h \in Connected(online) THEN "reading" ELSE "idle"]
    /\ huser = [h \in Handlers |-> IF h \in Connected(online) THEN online[h] ELSE ""]
    /\ hgw = [h \in Handlers |-> IF h \in Connected(online) THEN "g1" ELSE ""]
    /\ conn = [h \in Handlers |-> IF h \in Connected(online) THEN "open" ELSE "none"]
    /\ exists = [h \in Handlers |-> FALSE]
    /\ frames = [h \in Handlers |-> <<>>]
    /\ presence = [u \in Users |->
                      IF \E h \in Connected(online) : online[h] = u
                      THEN "online" ELSE "none"]
    /\ consumed = [g \in Gateways |-> IF g = "g1" THEN OnlineEvents(online) ELSE EmptyBag]
    /\ missed = [h \in Handlers |-> 0]
    /\ pingTask = [h \in Handlers |-> IF h \in Connected(online) THEN "waiting" ELSE "none"]
    /\ InitClient

InitWith(ms, gws, online, docs) ==
    /\ InitExceptChannel(ms, gws, online, docs)
    /\ brokerUp = TRUE
    /\ channel = [c \in ClientIds |-> "open"]

StatusInputs == {MessageStatusSent, MessageStatusDelivered, MessageStatusRead}
MessageRequests ==
    [receiver_id : {"", "a", "b"}, group_id : {"", "g"}, content : {"hi"}]

\* ------------------------------------------------- Message Service alone
InitMsg == InitWith(TRUE, {}, <<>>, PlainGroupDocs)

NextMsg ==
    \/ \E s \in {"a", "b"}, input \in MessageRequests : SendMessage(s, input)
    \/ \E r \in BagToSet(fanOutTasks) : fanOutGroupMessage(r)
    \/ \E u \in {"a", "b"}, id \in MsgHexIds, st \in StatusInputs :
           UpdateMessageStatus(u, id, st)
    \/ \E u \in {"a", "b"}, p \in {"a", "b", "g"} : GetMessages(u, p, "", "")
    \/ \E t \in BagToSet(markTasks) : markMessagesAsRead(t.sender_id, t.receiver_id)
    \/ \E acked \in BOOLEAN : HandleIncomingMessage(acked)

SpecMsg == InitMsg /\ [][NextMsg]_vars

\* ------------------------------------------------------- one gateway
InitGw == InitWith(FALSE, {"g1"}, <<>>, PlainGroupDocs)

NextGw ==
    \/ \E h \in Handlers, token \in {"a", "b", "bad"} : WsAuthenticate(h, "g1", token)
    \/ \E h \in Handlers : WsCloseExisting(h)
    \/ \E h \in Handlers, ok \in BOOLEAN : WsUpgrade(h, ok)
    \/ \E h \in Handlers : WsRegister(h)
    \/ \E h \in Handlers : WsPublishOnline(h)
    \/ \E h \in Handlers : PeerClose(h)
    \/ \E h \in Handlers : WsReadError(h)
    \/ \E h \in Handlers : WsCleanupDelete(h)
    \/ \E h \in Handlers : WsPublishOffline(h)
    \/ handleIncomingRabbitMQMessage("g1")

SpecGw == InitGw /\ [][NextGw]_vars

\* ------------------- one gateway, its request goroutines scheduled fairly
\* Every request is made with a's token, none or an invalid one, so that a later
\* connection replaces an earlier one.  A request goroutine that can take
\* its next step eventually takes it; peers close when they like.
HandlerStep(h) ==
    \/ WsCloseExisting(h)
    \/ \E ok \in BOOLEAN : WsUpgrade(h, ok)
    \/ WsRegister(h)
    \/ WsPublishOnline(h)
    \/ WsReadError(h)
    \/ WsCleanupDelete(h)
    \/ WsPublishOffline(h)

NextClose ==
    \/ \E h \in Handlers, token \in {"a", "", "bad"} : WsAuthenticate(h, "g1", token)
    \/ \E h \in Handlers : HandlerStep(h)
    \/ \E h \in Handlers : PeerClose(h)

SpecClose ==
    /\ InitGw
    /\ [][NextClose]_vars
    /\ \A h \in Handlers : WF_vars(HandlerStep(h))

\* ------------------- one gateway, pings and pongs on its connections
\* a connects (again and again); the ping goroutine of each connection
\* ticks, the peer answers with a pong or not, and closes or not.  The
\* request goroutines and the ping goroutines are scheduled fairly.
NextPing ==
    \/ \E h \in Handlers : WsAuthenticate(h, "g1", "a")
    \/ \E h \in Handlers : HandlerStep(h)
    \/ \E h \in Handlers : PeerClose(h)
    \/ \E h \in Handlers : PingTick(h)
    \/ \E h \in Handlers : PingTickFails(h)
    \/ \E h \in Handlers : Pong(h)

SpecPing ==
    /\ InitGw
    /\ [][NextPing]_vars
    /\ \A h \in Handlers :
           WF_vars(HandlerStep(h)) /\ WF_vars(PingTick(h)) /\ WF_vars(PingTickFails(h))

\* ------------------- the processes start, with the broker up or down
\* Nothing is declared at the broker yet.  The broker may be away when a
\* process starts; a started process takes requests.
InitStart ==
    /\ InitExceptChannel(FALSE, {}, <<>>, PlainGroupDocs)
    /\ brokerUp \in BOOLEAN
    /\ channel = [c \in ClientIds |-> "starting"]

NextStart ==
    \/ BrokerDown
    \/ BrokerBack
    \/ MessageServiceStart
    \/ \E g \in Gateways : GatewayStart(g)
    \/ SendMessage("a", [receiver_id |-> "b", group_id |-> "", content |-> "hi"])
    \/ \E h \in Handlers, g \in Gateways : WsAuthenticate(h, g, "b")
    \/ \E h \in Handlers : HandlerStep(h)
    \/ \E h \in Handlers : PeerClose(h)

SpecStart == InitStart /\ [][NextStart]_vars

\* ------------------------------------- two gateways on the same broker
InitTwoGw == InitWith(TRUE, Gateways, <<>>, PlainGroupDocs)

NextTwoGw ==
    \/ \E h \in Handlers, g \in Gateways : WsAuthenticate(h, g, "b")
    \/ \E h \in Handlers : WsCloseExisting(h)
    \/ \E h \in Handlers : WsUpgrade(h, TRUE)
    \/ \E h \in Handlers : WsRegister(h)
    \/ \E h \in Handlers : WsPublishOnline(h)
    \/ SendMessage("a", [receiver_id |-> "b", group_id |-> "", content |-> "hi"])
    \/ HandleIncomingMessage(TRUE)
    \/ \E g \in Gateways : handleIncomingRabbitMQMessage(g)

SpecTwoGw == InitTwoGw /\ [][NextTwoGw]_vars

\* ------------------- Message Service and one gateway with open sockets
InitFan == InitWith(TRUE, {"g1"}, <<"b", "c", "a">>, GroupDocs)

NextFan ==
    \/ \E s \in {"a", "b"}, r \in {"", "c"}, g \in {"", "g"} :
           SendMessage(s, [receiver_id |-> r, group_id |-> g, content |-> "hi"])
    \/ \E r \in BagToSet(fanOutTasks) : fanOutGroupMessage(r)
    \/ HandleIncomingMessage(TRUE)
    \/ handleIncomingRabbitMQMessage("g1")

SpecFan == InitFan /\ [][NextFan]_vars

\* ------------- Message Service with its goroutines scheduled fairly
\* The consumer goroutine started by Consume keeps taking deliveries, and a
\* spawned markMessagesAsRead goroutine eventually runs.  a sends to b, b
\* fetches the conversation (or the group's) and sets statuses back to sent.
MessageConsumer == \E acked \in BOOLEAN : HandleIncomingMessage(acked)

MarkReadTask ==
    \E t \in BagToSet(markTasks) : markMessagesAsRead(t.sender_id, t.receiver_id)

NextLive ==
    \/ SendMessage("a", [receiver_id |-> "b", group_id |-> "", content |-> "hi"])
    \/ \E p \in {"a", "g"} : GetMessages("b", p, "", "")
    \/ \E id \in MsgHexIds : UpdateMessageStatus("b", id, MessageStatusSent)
    \/ MarkReadTask
    \/ MessageConsumer

SpecLive ==
    /\ InitMsg
    /\ [][NextLive]_vars
    /\ WF_vars(MessageConsumer)
    /\ WF_vars(MarkReadTask)

\* ------------- Message Service: the writers of the stored status
\* a sends to b; either of them PATCHes any message id with any body, b
\* fetches the conversation, and the consumer runs.
StatusBodies == StatusInputs \cup {"", "seen"}

NextStatus ==
    \/ SendMessage("a", [receiver_id |-> "b", group_id |-> "", content |-> "hi"])
    \/ \E u \in {"a", "b"}, id \in MsgHexIds, st \in StatusBodies :
           UpdateMessageStatus(u, id, st)
    \/ GetMessages("b", "a", "", "")
    \/ MarkReadTask
    \/ MessageConsumer

SpecStatus == InitMsg /\ [][NextStatus]_vars

\* ------------- Message Service: PATCH /messages/:id/status
\* As above without the fetches.
NextPatch ==
    \/ SendMessage("a", [receiver_id |-> "b", group_id |-> "", content |-> "hi"])
    \/ \E u \in {"a", "b"}, id \in MsgHexIds, st \in StatusBodies :
           UpdateMessageStatus(u, id, st)
    \/ MessageConsumer

SpecPatch == InitMsg /\ [][NextPatch]_vars

\* ------------- Message Service: what SendMessage stores, what search finds
\* a, b and c send 1:1 and group messages with any receiver_id and group_id
\* that are strings, the zero ObjectID included, and search.
SendRequests ==
    [receiver_id : {"", "b", NilObjectID, BadHex}, group_id : {"", "g", NilObjectID},
     content : {"hi"}]

NextStore ==
    \/ \E s \in Users, input \in SendRequests : SendMessage(s, input)
    \/ \E r \in BagToSet(fanOutTasks) : fanOutGroupMessage(r)
    \/ \E u \in Users, q \in {"", "HI", "zz"}, contact \in {"", "a", "b", "g", BadHex} :
           SearchMessages(u, q, contact)

SpecStore == InitMsg /\ [][NextStore]_vars

\* ------------- Message Service and one gateway routing events to sockets
\* a and b hold open sockets on g1.  a sends to b, b fetches the
\* conversation, a sends one typing frame; the consumers run.
InitRoute == InitWith(TRUE, {"g1"}, <<"a", "b">>, PlainGroupDocs)

NextRoute ==
    \/ SendMessage("a", [receiver_id |-> "b", group_id |-> "", content |-> "hi"])
    \/ GetMessages("b", "a", "", "")
    \/ MarkReadTask
    \/ HandleIncomingMessage(TRUE)
    \/ /\ TypingPublished = 0
       /\ \E h \in Handlers, r \in {"b", "c"} :
              /\ huser[h] = "a"
              /\ WsTyping(h, [type |-> "typing", sender_id |-> Absent, receiver_id |-> r])
    \/ handleIncomingRabbitMQMessage("g1")

SpecRoute == InitRoute /\ [][NextRoute]_vars

\* ------------- Message Service and one gateway across broker outages
\* a sends to b, b (connected to g1) sends typing frames that claim any
\* sender; the broker goes
\* away and comes back and each client's handleReconnect runs.
InitOutage == InitWith(TRUE, {"g1"}, <<"b">>, PlainGroupDocs)

NextOutage ==
    \/ SendMessage("a", [receiver_id |-> "b", group_id |-> "", content |-> "hi"])
    \/ \E p \in BagToSet(sendPending) : SendFallback(p)
    \/ /\ TypingPublished < MaxTyping
       /\ \E h \in Handlers, f \in TypingFrames : WsTyping(h, f)
    \/ BrokerDown
    \/ BrokerBack
    \/ \E c \in {"ms", "g1"} : ReconnectDial(c)
    \/ \E c \in {"ms", "g1"} : ReconnectRedeclare(c)

SpecOutage == InitOutage /\ [][NextOutage]_vars

\* ------------------------------------------------------------------ claims
StatusRank(s) ==
    CASE s = MessageStatusSent -> 1
      [] s = MessageStatusDelivered -> 2
      [] s = MessageStatusRead -> 3
      [] OTHER -> 0

\* C1: the stored status of every message only moves forward along
\* sent -> delivered -> read, whatever operation changes it.
C1_MonotoneStatus ==
    [][\A i \in DOMAIN messages :
          messages[i].sender_id # messages[i].receiver_id
            => StatusRank(messages'[i].status) >= StatusRank(messages[i].status)]_vars

\* A SendMessage request the claim says is rejected: both recipient
\* discriminators set, neither set, or the receiver is the sender.
BadRecipient(r) ==
    \/ r.receiver_id # "" /\ r.group_id # ""
    \/ r.receiver_id = "" /\ r.group_id = ""
    \/ r.receiver_id = r.caller

\* C7: SendMessage answers 400, inserts nothing and publishes nothing when
\* both or neither of receiver_id and group_id are set or when the receiver
\* is the authenticated sender.
C7_RejectsBadRecipient ==
    [][(resp' # resp /\ resp'.op = "send" /\ BadRecipient(resp'))
         => /\ resp'.code = 400
            /\ messages' = messages
            /\ published' = published
            /\ fanOutTasks' = fanOutTasks]_vars

\* C9: handling a redelivered message.<uid> event leaves the messages
\* collection as it was after the first delivery and whatever status
\* operations ran since.
C9_RedeliveryIdempotent ==
    [][(/\ "messages" \in DOMAIN queues
        /\ queues["messages"] # <<>>
        /\ Head(queues["messages"]).redelivered
        /\ Head(queues["messages"]).body.sender_id
              # Head(queues["messages"]).body.receiver_id
        /\ HandleIncomingMessage(TRUE))
         => messages' = messages]_vars

\* No HandleWebSocket request is between its token check and its read loop
\* or inside its deferred cleanup, and every socket being read is open.
Quiescent ==
    \A h \in Handlers :
        \/ pc[h] \in {"idle", "done"}
        \/ pc[h] = "reading" /\ conn[h] = "open"

OpenSockets(g, u) == {h \in Handlers : hgw[h] = g /\ huser[h] = u /\ conn[h] = "open"}

\* C2: on one gateway each user has at most one open socket, and it is the
\* one the clients table holds.
C2_SingleOpenSocket ==
    Quiescent =>
        \A u \in Users :
            /\ Cardinality(OpenSockets("g1", u)) <= 1
            /\ \A h \in OpenSockets("g1", u) : clients["g1"][u] = h

\* C3: a connection that replaced an earlier one of the same user stays
\* registered for as long as it is open.
C3_ReplacementStaysRegistered ==
    \A h \in Handlers :
        (exists[h] /\ pc[h] = "reading" /\ conn[h] = "open")
            => clients[hgw[h]][huser[h]] = h

Registered(u) ==
    \E h \in OpenSockets("g1", u) : pc[h] = "reading" /\ clients["g1"][u] = h

\* C4: once the handlers are quiescent the last presence event of a user
\* is online iff the user has an open registered connection, and it is
\* online after a forced reconnection.
C4_PresenceReflectsConnectivity ==
    Quiescent =>
        /\ \A u \in Users : (presence[u] = "online") <=> Registered(u)
        /\ \A h \in Handlers :
               (exists[h] /\ pc[h] = "reading") => presence[huser[h]] = "online"

\* Number of deliveries of event e waiting in queue q.
RECURSIVE Waiting(_, _)
Waiting(q, e) ==
    IF q = <<>> THEN 0
    ELSE (IF Head(q).key = e.key /\ Head(q).body = e.body THEN 1 ELSE 0)
         + Waiting(Tail(q), e)

GatewayPatterns == {<<"message", "#">>, <<"status", "#">>, <<"typing", "#">>}

\* C10: every event published with a key matching message.#, status.# or
\* typing.# reaches the consumer of each gateway: each copy published is
\* either waiting in that gateway's queue or was handed to its consumer.
C10_EveryGatewayConsumes ==
    \A g \in Gateways : \A e \in BagToSet(published) :
        (\E pat \in GatewayPatterns : TopicMatch(pat, e.key))
            => CopiesIn(e, consumed[g]) + Waiting(queues[GatewayQueue(g)], e)
                 = CopiesIn(e, published)

\* Copies of the message with id idHex published with routing key `key`.
PublishedCopies(key, idHex) ==
    BagCardinality([e \in {x \in BagToSet(published) :
                              x.key = key /\ x.body.id = idHex} |-> published[e]])

\* Message frames (payloads with content) of message idHex written to socket h.
MessageFrames(h, idHex) ==
    Len(SelectSeq(frames[h], LAMBDA f : f.content # Absent /\ f.id = idHex))

FanOutDone(i) == \A r \in BagToSet(fanOutTasks) : r.id # Hex(i)

GatewayDrained(i) ==
    \A k \in 1..Len(queues[GatewayQueue("g1")]) :
        queues[GatewayQueue("g1")][k].body.id # Hex(i)

GroupMessages ==
    {i \in DOMAIN messages : messages[i].group_id \in DOMAIN groups}

Members(i) == {groups[messages[i].group_id][k] :
                   k \in 1..Len(groups[messages[i].group_id])}

\* C5: once fanOutGroupMessage has run for a group message of sender S to a
\* group with members M, exactly one event was published to message.<m> for
\* each m in M \ {S}, with receiver_id = m, and none to any other user; once
\* the gateway has consumed them, the socket of each such m holds exactly
\* one frame carrying the message and the sender's socket holds none.
C5_FanOutCompleteness ==
    \A i \in GroupMessages :
        FanOutDone(i) =>
            /\ \A m \in Users :
                  /\ PublishedCopies(<<"message", m>>, Hex(i))
                       = IF m \in Members(i) \ {messages[i].sender_id} THEN 1 ELSE 0
                  /\ \A e \in BagToSet(published) :
                        (e.key = <<"message", m>> /\ e.body.id = Hex(i))
                            => e.body.receiver_id = m
            /\ GatewayDrained(i) =>
                  \A h \in Handlers :
                      pc[h] = "reading" =>
                          MessageFrames(h, Hex(i))
                            = IF huser[h] \in Members(i) \ {messages[i].sender_id}
                              THEN 1 ELSE 0

\* status.batch.<A>.<B> events published so far.
PublishedBatch(A, B) ==
    BagCardinality([e \in {x \in BagToSet(published) :
                              x.key = <<"status", "batch", A, B>>} |-> published[e]])

MarkTask(A, B) == [sender_id |-> A, receiver_id |-> B]

\* A step in which GetMessages served B's fetch of the 1:1 conversation with A.
FetchStep(A, B) ==
    /\ nFetch' = nFetch + 1
    /\ resp' = Response("get", B, A, "", 200, 0)

OneToOne(i) ==
    /\ i \in DOMAIN messages
    /\ messages[i].group_id = NilObjectID
    /\ messages[i].receiver_id \in Users

DeliveredPublished(i) ==
    \E e \in BagToSet(published) :
        /\ e.key = <<"status", Hex(i)>>
        /\ e.body.message_id = Hex(i)
        /\ e.body.status = MessageStatusDelivered
        /\ e.body.sender_id = messages[i].sender_id

\* The event SendMessage published for message i waits in the consumer's queue.
AwaitsConsumer(i) ==
    /\ "messages" \in DOMAIN queues
    /\ \E k \in 1..Len(queues["messages"]) :
          /\ queues["messages"][k].key[1] = "message"
          /\ queues["messages"][k].body.id = Hex(i)

\* C8: with the broker available and the consumer scheduled fairly, every
\* 1:1 message that was sent eventually has stored status delivered or read
\* and a status.<message_id> event with status delivered and the message's
\* sender_id has been published.
C8_EventuallyDelivered ==
    \A i \in 1..MaxMsgs :
        (OneToOne(i) /\ AwaitsConsumer(i)) ~>
            ( /\ OneToOne(i)
              /\ messages[i].status \in {MessageStatusDelivered, MessageStatusRead}
              /\ DeliveredPublished(i) )

\* The consumer handled the event of a 1:1 message nobody else touched.
C8_Witness ==
    /\ nPatch = 0 /\ nFetch = 0
    /\ \E i \in 1..MaxMsgs :
          /\ OneToOne(i)
          /\ messages[i].sender_id # messages[i].receiver_id
          /\ messages[i].status = MessageStatusDelivered
          /\ DeliveredPublished(i)

\* handleReconnect has finished redeclaring on the connection it re-established.
ReconnectDone(client) == brokerUp /\ channel[client] \in {"reopened", "closed"}

\* C11: once handleReconnect has re-established a client's connection, a
\* 1:1 SendMessage of the Message Service gets its message.<receiver> event
\* accepted by the exchange, and a gateway's publishes are accepted.
C11_PublishAfterReconnect ==
    [][/\ (ReconnectDone("ms") /\ Len(messages') = Len(messages) + 1)
            => \E e \in BagToSet(published') :
                   /\ e.key = <<"message", messages'[Len(messages')].receiver_id>>
                   /\ e.body.id = Hex(Len(messages'))
       /\ \A g \in Gateways : ReconnectDone(g)' => Usable(g)']_vars

\* C12: a 1:1 SendMessage whose insert succeeded answers 201 for the stored
\* message, still in status sent, whether the exchange publish succeeded,
\* only the fallback did or both failed; and no step of the request removes
\* or alters a stored message.
C12_StoredThenCreated ==
    [][/\ (resp' # resp /\ resp'.op = "send" /\ resp'.id # 0)
            => /\ resp'.code = 201
               /\ resp'.id \in DOMAIN messages'
               /\ messages'[resp'.id] =
                      NewMessage(resp'.caller, resp'.receiver_id, NilObjectID)
       /\ \A i \in DOMAIN messages :
              i \in DOMAIN messages' /\ messages'[i] = messages[i]]_vars

\* Message n was answered 201 although neither the exchange nor the queue
\* took its event.
C12_Witness ==
    /\ resp.op = "send"
    /\ resp.code = 201
    /\ resp.id \in DOMAIN messages
    /\ sendPending = EmptyBag
    /\ \A q \in DOMAIN queues :
           \A k \in DOMAIN queues[q] : queues[q][k].body.id # Hex(resp.id)
    /\ \E j \in DOMAIN messages :
           j # resp.id /\ \E k \in DOMAIN queues["messages"] :
               /\ queues["messages"][k].key = <<"messages">>
               /\ queues["messages"][k].body.id = Hex(j)

\* C13: a PATCH of the status of a message whose stored status is read
\* leaves it read when the requested status is sent or delivered.
C13_ReadIsFinal ==
    [][\A u \in Users, id \in MsgHexIds :
          \A st \in {MessageStatusSent, MessageStatusDelivered} :
             (/\ MsgIndex(id) \in DOMAIN messages
              /\ messages[MsgIndex(id)].status = MessageStatusRead
              /\ UpdateMessageStatus(u, id, st))
               => messages'[MsgIndex(id)].status = MessageStatusRead]_vars

\* C14: a PATCH of an existing message by a user who is not its receiver is
\* answered 403, leaves the stored messages as they were and publishes no
\* event; a PATCH that changes a stored message is its receiver's.
C14_OnlyReceiverUpdates ==
    [][\A u \in Users, id \in MsgHexIds :
          /\ \A st \in StatusInputs :
                (/\ MsgIndex(id) \in DOMAIN messages
                 /\ messages[MsgIndex(id)].receiver_id # u
                 /\ UpdateMessageStatus(u, id, st))
                  => /\ resp'.code = 403
                     /\ messages' = messages
                     /\ published' = published
                     /\ queues' = queues
          /\ \A st \in StatusBodies :
                (UpdateMessageStatus(u, id, st) /\ messages' # messages)
                  => messages[MsgIndex(id)].receiver_id = u]_vars

\* The sender of a stored message PATCHed its status and was refused.
C14_Witness ==
    /\ resp.op = "patch"
    /\ resp.code = 403
    /\ resp.id \in DOMAIN messages
    /\ messages[resp.id].sender_id = resp.caller
    /\ messages[resp.id].receiver_id # resp.caller

\* C15: the stored status of every message is one of sent, delivered, read.
C15_StatusInEnum ==
    \A i \in DOMAIN messages : messages[i].status \in StatusInputs

\* Copies of the presence event {status} the exchange accepted for user u.
PresencePublished(u, status) ==
    CopiesIn([key |-> <<"status", "user", u>>, body |-> StatusUpdate(status)], published)

\* The requests of user u whose socket reached OPEN and that have returned.
Returned(u) == {h \in Handlers : huser[h] = u /\ conn[h] # "none" /\ pc[h] = "done"}

\* The requests of user u that are past the publish of the online event.
Announced(u) ==
    {h \in Handlers : /\ huser[h] = u
                      /\ pc[h] \in {"reading", "c_delete", "c_offline", "done"}
                      /\ conn[h] # "none"}

\* C16: with the broker accepting publishes, the offline events published
\* for a user are exactly one per connection of that user that reached OPEN
\* and whose handler has returned, the online events one per connection that
\* reached OPEN (so a request that never reached OPEN publishes none), and a
\* closed connection's handler does return, whoever closed it.
C16_OneOfflinePerConnection ==
    /\ [](\A u \in Users :
             /\ PresencePublished(u, "offline") = Cardinality(Returned(u))
             /\ PresencePublished(u, "online") = Cardinality(Announced(u)))
    /\ \A h \in Handlers : (conn[h] = "closed") ~> (h \in Returned(huser[h]))

\* A connection closed by its replacement and the replacement, closed by
\* its peer, have each published their offline event.
C16_Witness ==
    /\ PresencePublished("a", "offline") = 2
    /\ \E h \in Handlers : exists[h] /\ h \in Returned("a")

\* C20: a /ws request without a token or with one that fails validation
\* returns (401) without registering, closing or replacing any connection
\* and without publishing any event.
C20_UnauthorizedNoEffect ==
    [][\A h \in Handlers, token \in Tokens \ Users :
          WsAuthenticate(h, "g1", token)
            => /\ pc'[h] = "done"
               /\ huser'[h] = ""
               /\ clients' = clients
               /\ conn' = conn
               /\ presence' = presence
               /\ published' = published
               /\ queues' = queues]_vars

\* A request was refused while another user's connection was registered
\* and open.
C20_Witness ==
    \E h, other \in Handlers :
        /\ pc[h] = "done" /\ huser[h] = "" /\ conn[h] = "none"
        /\ clients["g1"]["a"] = other
        /\ conn[other] = "open"
        /\ presence["a"] = "online"

\* The user the claim names for an event: the receiver for an event with
\* content or of type typing, the sender for one with message_id and status
\* or of type batch.
ClaimedTarget(msg) ==
    IF msg.content # Absent \/ msg.type = "typing" THEN msg.receiver_id
    ELSE IF (msg.message_id # Absent /\ msg.status # Absent) \/ msg.type = "batch"
    THEN msg.sender_id
    ELSE Absent

\* C17: a step that writes an event to a socket writes it to one socket
\* only, once, and that socket is the one of the user the claim names for
\* the event.
C17_OneSocketPerEvent ==
    [][\A h \in Handlers :
          frames'[h] # frames[h]
            => /\ Len(frames'[h]) = Len(frames[h]) + 1
               /\ SubSeq(frames'[h], 1, Len(frames[h])) = frames[h]
               /\ \A other \in Handlers \ {h} : frames'[other] = frames[other]
               /\ huser[h] = ClaimedTarget(frames'[h][Len(frames'[h])])]_vars

\* Frames of kind `is` written to the socket of user u.
Written(u, is(_)) ==
    \E h \in Handlers : huser[h] = u /\ \E k \in DOMAIN frames[h] : is(frames[h][k])

\* b's socket got a message and a typing event, a's socket a status event
\* and a batch event.
C17_Witness ==
    /\ Written("b", LAMBDA msg : msg.content # Absent)
    /\ Written("b", LAMBDA msg : msg.type = "typing")
    /\ Written("a", LAMBDA msg : msg.message_id # Absent)
    /\ Written("a", LAMBDA msg : msg.type = "batch")

\* C19: a typing frame read from a socket publishes, on
\* typing.<receiver_id of the frame>, an event whose sender_id is the user
\* the socket authenticated as, whatever sender_id the frame carried.
C19_TypingSenderIsSocketUser ==
    [][\A h \in Handlers, f \in TypingFrames :
          (WsTyping(h, f) /\ published' # published)
            => \E e \in BagToSet(published') :
                   /\ CopiesIn(e, published') = CopiesIn(e, published) + 1
                   /\ e.key = <<"typing", f.receiver_id>>
                   /\ e.body.type = "typing"
                   /\ e.body.sender_id = huser[h]
                   /\ e.body.receiver_id = f.receiver_id]_vars

\* b's socket has published a typing event to a, and it names b.
C19_Witness ==
    /\ \E h \in Handlers : huser[h] = "b" /\ pc[h] = "reading"
    /\ \E e \in BagToSet(published) :
           e.key = <<"typing", "a">> /\ e.body.sender_id = "b"
    /\ \A e \in BagToSet(published) :
           Head(e.key) = "typing" => e.body.sender_id \in {"a", "b"}

\* The gateway has sent connection h pings for more than 60 seconds without
\* a pong, and its read has not failed.
Stale(h) == pc[h] = "reading" /\ conn[h] = "open" /\ missed[h] * PingPeriodSeconds > 60

\* Connection h is closed, is not the registered socket of its user and its
\* handler has returned (having published offline).
ClosedAndRemoved(h) ==
    /\ conn[h] = "closed"
    /\ \A u \in Users : clients["g1"][u] # h
    /\ pc[h] = "done"

\* C18: an open connection whose last pong is more than 60 seconds old is
\* closed by the gateway, removed from clients and announced offline, even
\* when its read never fails.
C18_StaleConnectionClosed ==
    \A h \in Handlers : Stale(h) ~> ClosedAndRemoved(h)

\* Message m belongs to a conversation of user u: a 1:1 message u sent or
\* received, or a message of a group whose member_ids contain u.
InOwnConversation(m, u) ==
    IF m.group_id # NilObjectID
    THEN m.group_id \in MyGroupIDs(u)
    ELSE u \in {m.sender_id, m.receiver_id}

\* C21: every message a search returns belongs to a conversation of the
\* caller, with or without contact_id.
C21_SearchScopedToCaller ==
    resp.op = "search" =>
        \A i \in resp.found : InOwnConversation(messages[i], resp.caller)

\* C24: every stored message has exactly one of receiver_id and group_id
\* different from the zero ObjectID.
C24_ExactlyOneRecipient ==
    \A i \in DOMAIN messages :
        (messages[i].receiver_id # NilObjectID) # (messages[i].group_id # NilObjectID)

\* The process found the broker away when it started.
DialFailed(client) == channel[client] \in {"none", "aborted"}

\* C22: a process whose connection to the broker failed at startup takes
\* no request: no /ws request at such a gateway, no POST /messages at such
\* a Message Service.
C22_NoBrokerNoService ==
    [][/\ \A h \in Handlers, g \in Gateways, token \in Tokens :
             WsAuthenticate(h, g, token) => ~DialFailed(g)
       /\ Len(messages') > Len(messages) => ~DialFailed("ms")]_vars

\* ------------- one gateway consuming message events and a body it rejects
\* a and b hold open sockets on g1.  a sends to b; a foreign publisher puts
\* one body that is not JSON on the routing key message.b; both consumers
\* run.
NextOrder ==
    \/ SendMessage("a", [receiver_id |-> "b", group_id |-> "", content |-> "hi"])
    \/ PublishForeign(<<"message", "b">>)
    \/ HandleIncomingMessage(TRUE)
    \/ handleIncomingRabbitMQMessage("g1")

SpecOrder == InitRoute /\ [][NextOrder]_vars

\* The ids of the message frames written to h, in the order written.
\* SendMessage publishes message.<receiver> in the step that stores the
\* message, so the order of the ids is the order of publication.
WrittenMessages(h) == SelectSeq(frames[h], LAMBDA msg : msg.content # Absent)

\* C23: the message events of one routing key that one gateway consumes
\* are written to the socket in the order they were published, also when
\* the handler failed on an event in between.
C23_FramesInPublicationOrder ==
    \A h \in Handlers :
        \A i, j \in DOMAIN WrittenMessages(h) :
            i < j => MsgIndex(WrittenMessages(h)[i].id) < MsgIndex(WrittenMessages(h)[j].id)

\* Two message frames were written to b's socket and the handler failed on
\* the body in between, which is back on the queue.
C23_Witness ==
    /\ \E h \in Handlers : huser[h] = "b" /\ Len(WrittenMessages(h)) = 2
    /\ \E k \in DOMAIN queues[GatewayQueue("g1")] :
           LET d == queues[GatewayQueue("g1")][k]
           IN ~Unmarshals(d.body) /\ d.redelivered

\* ------------- the Message Service consuming a body it cannot process
\* The Message Service starts with the broker up; a sends to b and a
\* foreign publisher puts one body that is not JSON on message.b.
InitDead ==
    /\ InitExceptChannel(FALSE, {}, <<>>, PlainGroupDocs)
    /\ brokerUp = TRUE
    /\ channel = [c \in ClientIds |-> "starting"]

NextDead ==
    \/ MessageServiceStart
    \/ SendMessage("a", [receiver_id |-> "b", group_id |-> "", content |-> "hi"])
    \/ PublishForeign(<<"message", "b">>)
    \/ MessageConsumer

SpecDead ==
    /\ InitDead
    /\ [][NextDead]_vars
    /\ WF_vars(MessageServiceStart)
    /\ WF_vars(MessageConsumer)

Holds(q, body) ==
    q \in DOMAIN queues /\ \E k \in DOMAIN queues[q] : queues[q][k].body = body

\* C29: an event of queue "messages" on which the handler returns an
\* error ends up in the queue dead_letters.
C29_UnprocessableDeadLettered ==
    Holds("messages", Malformed) ~> Holds("dead_letters", Malformed)

\* ------------- consumers across a broker outage
\* b holds an open socket on g1 and a sends to b; the broker goes away and
\* comes back, each client's handleReconnect runs, and the consumer loops
\* run whenever they have a delivery.
NextResume ==
    \/ SendMessage("a", [receiver_id |-> "b", group_id |-> "", content |-> "hi"])
    \/ \E p \in BagToSet(sendPending) : SendFallback(p)
    \/ BrokerDown
    \/ BrokerBack
    \/ \E c \in {"ms", "g1"} : ReconnectDial(c)
    \/ \E c \in {"ms", "g1"} : ReconnectRedeclare(c)
    \/ HandleIncomingMessage(TRUE)
    \/ handleIncomingRabbitMQMessage("g1")

SpecResume ==
    /\ InitOutage
    /\ [][NextResume]_vars
    /\ WF_vars(BrokerBack)
    /\ \A c \in {"ms", "g1"} : WF_vars(ReconnectDial(c)) /\ WF_vars(ReconnectRedeclare(c))
    /\ WF_vars(HandleIncomingMessage(TRUE))
    /\ WF_vars(handleIncomingRabbitMQMessage("g1"))

\* Gateway g finished its reconnection and its queue holds a delivery.
Backlog(g) == ReconnectDone(g) /\ queues[GatewayQueue(g)] # <<>>
Drained(g) == queues[GatewayQueue(g)] = <<>> \/ ~ReconnectDone(g)

\* C25: after handleReconnect re-established the connection and declared
\* everything again, the consumer started with Consume receives again:
\* the deliveries of the gateway's queue are taken off it.
C25_ConsumerResumes == Backlog("g1") ~> Drained("g1")

\* Request h found a connection of its user in the table, closed and removed
\* it, and has not inserted its own connection yet.
Reconnecting(h) == exists[h] /\ pc[h] \in {"upgrade", "register"}

\* C26: while a request replaces the connection of a user, the table
\* never shows the user absent to another task: removal of the old handle
\* and insertion of the new one are one critical section.
C26_NeverAbsentDuringReconnect ==
    \A h \in Handlers : Reconnecting(h) => clients[hgw[h]][huser[h]] # 0

\* ------------- publishers while handleReconnect replaces the channel
\* As SpecOutage, with the replacement of c.conn and c.channel taken one
\* statement at a time.
NextMutex ==
    \/ SendMessage("a", [receiver_id |-> "b", group_id |-> "", content |-> "hi"])
    \/ \E p \in BagToSet(sendPending) : SendFallback(p)
    \/ /\ TypingPublished < MaxTyping
       /\ \E h \in Handlers, f \in TypingFrames : WsTyping(h, f)
    \/ BrokerDown
    \/ BrokerBack
    \/ \E c \in {"ms", "g1"} : ReconnectLock(c)
    \/ \E c \in {"ms", "g1"} : ReconnectSwap(c)
    \/ \E c \in {"ms", "g1"} : ReconnectUnlock(c)
    \/ \E c \in {"ms", "g1"} : ReconnectRedeclare(c)

SpecMutex == InitOutage /\ [][NextMutex]_vars

\* handleReconnect of the client is between clientMutex.Lock() and Unlock().
HoldsClientMutex(client) == channel[client] \in {"locked", "swapped"}

\* C27: no publish reads the client's channel while handleReconnect is
\* inside the critical section that replaces conn and channel: neither
\* the publish of SendMessage nor the publish of a typing event.
C27_ChannelUseExcludesReplace ==
    [][/\ Len(messages') > Len(messages) => ~HoldsClientMutex("ms")
       /\ \A h \in Handlers, f \in TypingFrames :
             WsTyping(h, f) => ~HoldsClientMutex(hgw[h])]_vars

\* ------------- one gateway, the first critical section statement by statement
\* a and b connect to g1 again and again; every other critical section of
\* clientsMutex waits until the lock is free.
NextLockIO ==
    \/ \E h \in Handlers, token \in {"a", "b"} : WsAuthenticate(h, "g1", token)
    \/ \E h \in Handlers : WsLock(h)
    \/ \E h \in Handlers : WsCloseLocked(h)
    \/ \E h \in Handlers : WsDeleteUnlock(h)
    \/ \E h \in Handlers, ok \in BOOLEAN : WsUpgrade(h, ok)
    \/ \E h \in Handlers : LockFree(hgw[h]) /\ WsRegister(h)
    \/ \E h \in Handlers : WsPublishOnline(h)
    \/ \E h \in Handlers : PeerClose(h)
    \/ \E h \in Handlers : WsReadError(h)
    \/ \E h \in Handlers : LockFree(hgw[h]) /\ WsCleanupDelete(h)
    \/ \E h \in Handlers : WsPublishOffline(h)

SpecLockIO == InitGw /\ [][NextLockIO]_vars

\* C28: a step of a request that holds the clients-table lock closes no
\* connection and writes to none.
C28_NoSocketIOUnderLock ==
    [][\A h \in Handlers :
          (HoldsClientsMutex(h) /\ pc'[h] # pc[h]) => (conn' = conn /\ frames' = frames)]_vars

\* ------------------------------------------------------------ web client
\* MessageProcessor.handleRawMessage: the handler a parsed frame goes to.
FrameKind(parsed) ==
    IF parsed.type = "typing" THEN "typing"
    ELSE IF parsed.type = "batch" THEN "batch"
    ELSE IF parsed.message_id # Absent /\ parsed.status # Absent THEN "messageStatus"
    ELSE IF parsed.content # Absent THEN "message"
    ELSE "unknown"

\* useChat: the status of the listed message msg after the handler ran.
handleMessageStatusUpdate(msg, event) ==
    IF msg.id = event.message_id THEN event.status ELSE msg.status

handleBatchStatusUpdate(msg, event, selectedContact) ==
    IF /\ selectedContact = event.receiver_id
       /\ msg.receiver_id = event.receiver_id
       /\ msg.status # MessageStatusRead
    THEN event.status
    ELSE msg.status

\* The status the sender's client shows for its message idHex after the
\* frames frs arrived, with the conversation of the message selected.  The
\* message enters the list as sent.
RECURSIVE ShownStatus(_, _)
ShownStatus(frs, idHex) ==
    IF frs = <<>> THEN MessageStatusSent
    ELSE LET receiver == messages[MsgIndex(idHex)].receiver_id
             msg == [id |-> idHex, receiver_id |-> receiver,
                     status |-> ShownStatus(SubSeq(frs, 1, Len(frs) - 1), idHex)]
             event == frs[Len(frs)]
         IN CASE FrameKind(event) = "messageStatus" -> handleMessageStatusUpdate(msg, event)
              [] FrameKind(event) = "batch" -> handleBatchStatusUpdate(msg, event, receiver)
              [] OTHER -> msg.status

\* C30: once the client shows a message as read, a per-message status
\* event carrying delivered or sent leaves it shown as read.
C30_ShownStatusNeverRegresses ==
    \A h \in Handlers : \A i \in DOMAIN messages : \A k \in DOMAIN frames[h] :
        LET event == frames[h][k] IN
        (/\ huser[h] = messages[i].sender_id
         /\ ShownStatus(SubSeq(frames[h], 1, k - 1), Hex(i)) = MessageStatusRead
         /\ FrameKind(event) = "messageStatus"
         /\ event.message_id = Hex(i)
         /\ event.status \in {MessageStatusSent, MessageStatusDelivered})
        => ShownStatus(SubSeq(frames[h], 1, k), Hex(i)) = MessageStatusRead

\* useChat handleWebSocketMessage: the message list after the handler ran
\* on a message frame, with the conversation selectedContact open.
handleWebSocketMessage_NoDedupe(list, message, selectedContact, isGroup) ==
    LET shouldAdd ==
            IF isGroup THEN message.group_id = selectedContact
            ELSE /\ message.group_id \in {Absent, "", NilObjectID}
                 /\ selectedContact \in {message.sender_id, message.receiver_id}
    IN IF shouldAdd THEN Append(list, message) ELSE list
handleWebSocketMessage(list, message, selectedContact, isGroup) ==
    LET shouldAdd ==
            IF isGroup THEN message.group_id = selectedContact
            ELSE /\ message.group_id \in {Absent, "", NilObjectID}
                 /\ selectedContact \in {message.sender_id, message.receiver_id}
    IN IF shouldAdd /\ ~\E k \in DOMAIN list : list[k].id = message.id
       THEN Append(list, message)
       ELSE list

\* The message list of a client that opened the conversation before any
\* message was stored and then received the frames frs.
RECURSIVE ChatList(_, _, _)
ChatList(frs, selectedContact, isGroup) ==
    IF frs = <<>> THEN <<>>
    ELSE LET list == ChatList(SubSeq(frs, 1, Len(frs) - 1), selectedContact, isGroup)
             parsed == frs[Len(frs)]
         IN IF FrameKind(parsed) = "message"
            THEN handleWebSocketMessage(list, parsed, selectedContact, isGroup)
            ELSE list

\* ------------- a client's message list under redelivered message events
\* a and b hold open sockets on g1, b's client has the conversation with a
\* open.  a sends to b; the broker may deliver an event to the gateway
\* consumer a second time.
NextChat ==
    \/ SendMessage("a", [receiver_id |-> "b", group_id |-> "", content |-> "hi"])
    \/ HandleIncomingMessage(TRUE)
    \/ \E acked \in BOOLEAN : GatewayConsumerTurn("g1", acked)

SpecChat == InitRoute /\ [][NextChat]_vars

\* Entries of message idHex in b's list of the conversation with a.
ListEntries(h, idHex) ==
    Len(SelectSeq(ChatList(frames[h], "a", FALSE), LAMBDA m : m.id = idHex))

\* C31: however often the frame of a message was handled, the list of its
\* conversation holds exactly one entry for the message.
C31_OneEntryPerMessage ==
    \A h \in Handlers : \A i \in DOMAIN messages :
        (huser[h] = "b" /\ MessageFrames(h, Hex(i)) >= 1) => ListEntries(h, Hex(i)) = 1

\* The frame of one message was handled twice.
C31_Witness ==
    \E h \in Handlers : \E i \in DOMAIN messages :
        huser[h] = "b" /\ MessageFrames(h, Hex(i)) = 2 /\ ListEntries(h, Hex(i)) = 1

\* ------------- the web client's socket, the server as its environment
\* The user connects and disconnects, the socket opens and closes with any
\* close code, the server answers text pings, time passes.
NextClient ==
    \/ connect
    \/ disconnect
    \/ handleOpen
    \/ \E code \in CloseCodes : handleClose(code)
    \/ TimerFires
    \/ IntervalsFire
    \/ updatePongTime
    \/ Tick

SpecClient == InitGw /\ [][NextClient]_vars

\* C32: a close with an abnormal code, while fewer than 3 attempts were
\* made since the last open, schedules a reconnection after 1 s, 2 s, 4 s
\* (never above 30 s); a close with code 1000 or 1001 and a close after 3
\* attempts schedule none, and neither does a manual disconnect.
C32_BackoffSchedule ==
    [][/\ \A code \in CloseCodes :
             handleClose(code) =>
                 IF code \notin {1000, 1001} /\ attempts < 3
                 THEN /\ attempts' = attempts + 1
                      /\ timer' = <<1000, 2000, 4000>>[attempts']
                      /\ timer' <= 30000
                 ELSE attempts' = attempts /\ timer' = timer
       /\ disconnect => timer' = 0 /\ attempts' = attempts]_vars

\* C39: the health check tears down an open connection only when a ping
\* sent on that connection is still unanswered: a connection that was just
\* opened, or whose pings were all answered, is kept.
C39_FreshConnectionKept ==
    [][(IntervalsFire /\ socket = "OPEN" /\ ~pingSent) => socket' = "OPEN"]_vars

\* C33: the start of the Message Service leaves every binding of a
\* running gateway's queue (message.#, status.#, typing.# on exchange
\* messages) in place.
C33_GatewayBindingsSurviveStart ==
    [][MessageServiceStart =>
          \A g \in Gateways :
              GatewayBindings(g) \subseteq bindings => GatewayBindings(g) \subseteq bindings']_vars

\* status.<message_id> events with status delivered published for message i.
DeliveredCopies(i) ==
    BagCardinality([e \in {x \in BagToSet(published) :
                              /\ x.key = <<"status", Hex(i)>>
                              /\ x.body.status = MessageStatusDelivered}
                       |-> published[e]])

\* C34: for each message at most one status.<message_id> event with
\* status delivered is published, also for a group message fanned out to
\* several members.
C34_DeliveredPublishedOnce ==
    \A i \in DOMAIN messages : DeliveredCopies(i) <= 1

\* ------------- the read loop's pong reply and the consumer on one socket
\* a and b hold open sockets on g1 and send text pings; a sends to b and
\* the gateway consumer writes the event to b's socket.
NextWrite ==
    \/ SendMessage("a", [receiver_id |-> "b", group_id |-> "", content |-> "hi"])
    \/ handleIncomingRabbitMQMessage("g1")
    \/ \E h \in Handlers : WsPongBegin(h)
    \/ \E h \in Handlers, ok \in BOOLEAN : WsPongEnd(h, ok)
    \/ \E h \in Handlers : WsCleanupDelete(h)
    \/ \E h \in Handlers : WsPublishOffline(h)

SpecWrite == InitRoute /\ [][NextWrite]_vars

\* C35: while the read loop's pong reply is being written to a socket, no
\* other task writes a frame to that socket.
C35_OneWriterPerSocket ==
    [][\A h \in Handlers :
          (pc[h] = "ponging" /\ pc'[h] = "ponging") => frames'[h] = frames[h]]_vars

\* ------------------------- acknowledgement at the gateway consumer
\* a and b hold open sockets on g1; events for b arrive in the gateway's
\* queue, one of them with a body that is not JSON; b's socket may fail.
NextAck ==
    \/ SendMessage("a", [receiver_id |-> "b", group_id |-> "", content |-> "hi"])
    \/ PublishForeign(<<"message", "b">>)
    \/ handleIncomingRabbitMQMessage("g1")
    \/ \E h \in Handlers, ok \in BOOLEAN : WsPongBegin(h) \/ WsPongEnd(h, ok)

SpecAck ==
    /\ InitRoute
    /\ [][NextAck]_vars
    /\ WF_vars(handleIncomingRabbitMQMessage("g1"))

GatewayBacklog == queues[GatewayQueue("g1")]

\* C36: every delivery handed to the gateway consumer is eventually
\* acknowledged: a backlog in the gateway's queue is eventually drained.
C36_EveryDeliveryAcked == (GatewayBacklog # <<>>) ~> (GatewayBacklog = <<>>)

\* ------------------------------------- what GetMessages returns to whom
\* The filter GetMessages builds, applied to one stored message: group_id
\* alone when a group was resolved, else the two directions of the pair.
GetMessagesFilter(message, currentUserID, groupID, otherUserID) ==
    IF groupID # ""
    THEN message.group_id = groupID
    ELSE \/ message.sender_id = currentUserID /\ message.receiver_id = otherUserID
         \/ message.sender_id = otherUserID /\ message.receiver_id = currentUserID

\* The stored messages the last GetMessages response was selected from.
FetchedMessages ==
    {i \in DOMAIN messages :
        GetMessagesFilter(messages[i], resp.caller, resp.group_id, resp.receiver_id)}

\* C37: every message GetMessages returns belongs to a conversation the
\* caller takes part in: a 1:1 message of the caller, or a message of a
\* group whose member_ids contain the caller.
C37_FetchScopedToCaller ==
    (resp.op = "get" /\ resp.code = 200) =>
        \A i \in FetchedMessages : InOwnConversation(messages[i], resp.caller)

\* --------------------------------- the ping goroutine of a connection
HandlerReturned(h) == pc[h] = "done" /\ conn[h] = "closed"
PingTaskAlive(h) == pingTask[h] = "waiting"

\* C38: once the handler of a connection has returned, the ping goroutine
\* started for that connection terminates.
C38_PingTaskTerminates ==
    \A h \in Handlers : HandlerReturned(h) ~> ~PingTaskAlive(h)

====
